---- MODULE Spec2Model ----
(***************************************************************************)
(* Model of src/Main.py: a PyQt5 window (MainWindow, UI thread) that       *)
(* starts a QThread (Worker) which fetches a JSON list of posts, writes it *)
(* to the SQLite file posts.db and reports back through three queued      *)
(* signals (update_progress, update_status, update_data).                  *)
(*                                                                         *)
(* Modelling decisions:                                                    *)
(*  - the signals cross threads, so Qt queues them; `queue` is that FIFO,  *)
(*    the slots of MainWindow consume its head on the UI thread;           *)
(*  - the sqlite3 connection works in Python's default (deferred) mode:    *)
(*    the INSERTs go to the connection's open transaction `txn`, other     *)
(*    readers of posts.db see `store` until conn.commit();                 *)
(*  - Worker.run has no try/except: an exception of fetch_data or          *)
(*    save_to_database leaves run(); PyQt5 then either aborts the process  *)
(*    (qFatal, PyQt >= 5.5) or only ends the thread (older PyQt);          *)
(*  - logging.info called in the worker thread runs StatusBarLogger.emit   *)
(*    in that thread, a QStatusBar call outside the GUI thread: the        *)
(*    message is shown or the process crashes;                             *)
(*  - status_bar holds the message shown last (its 3000 ms expiry is not   *)
(*    modelled).                                                           *)
(***************************************************************************)
EXTENDS Integers, Sequences, FiniteSets, TLC

\* ---- bounds of the model
MaxLen == 2        \* longest response (number of posts in the JSON array)
MaxRuns == 2       \* runs started over the life of posts.db
MaxInFlight == 2   \* queued signal deliveries not yet consumed by the UI

\* ---- program constants
ProgressStop == 101   \* range(0, 101, 10)
ProgressStep == 10    \* range(0, 101, 10)
ProgressDone == 100   \* self.update_progress.emit(100)
ProgressUnset == 0 - 1  \* value() of a fresh QProgressBar

\* ---- the posts the remote endpoint can send
\* well-formed posts: integer id, string title, string body
OkPosts ==
    { [id |-> 1, title |-> "A", body |-> "x"],
      [id |-> 1, title |-> "B", body |-> "y"],
      [id |-> 2, title |-> "C", body |-> "z"] }

\* a post without "body": post["body"] raises KeyError
BadPost == [id |-> 1, title |-> "A"]

Posts == OkPosts \cup {BadPost}

\* response.status: a success and a server error
HttpStatuses == {200, 500}

\* response.json(): a JSON array of at most MaxLen posts
Responses == UNION { [1..n -> Posts] : n \in 0..MaxLen }

\* the bodies considered for a server error that carries a JSON array: the empty
\* array and the arrays of one post
ErrorBodies == { d \in Responses : Len(d) <= 1 }

\* what session.get can deliver: a status and a decodable body
HttpResponses ==
    { r \in [status : HttpStatuses, body : Responses] :
        r.status \in 200..299 \/ r.body \in ErrorBodies }

\* ---- the texts shown in the status bar
MsgFetching == "Loading data from server..."
LogFetchStart == "Start of loading data from server..."
MsgFetchDone == "Data loading finished."
MsgSaving == "Saving data to database..."
LogSaveStart == "Start of saving data to database..."
LogSaved == "Data successfully saved to database."
MsgSaved == "Data successfully saved."
LogStartLoading == "Starting data loading..."
LogLoaded == "Data successfully loaded!"

VARIABLES
    appAlive,        \* the process runs (FALSE after an abort)
    button_enabled,  \* MainWindow.button.isEnabled()
    progress_bar,    \* MainWindow.progress_bar.value()
    status_bar,      \* message shown by MainWindow.status_bar and the thread that set it
    table,           \* rows of MainWindow.table
    wpc,             \* position of the worker thread in Worker.run
    i,               \* loop variable of the two progress loops
    data,            \* the list returned by fetch_data
    k,               \* index of the next post of the for loop of save_to_database
    conn,            \* sqlite3 connection of the run: "none", "open", "closed"
    txn,             \* rows as seen inside the connection's open transaction
    store,           \* committed rows of table posts in posts.db
    tableExists,     \* table posts exists in posts.db
    queue,           \* queued signal deliveries, worker -> UI thread
    emitted,         \* history: signals emitted by the current run, in order
    runs,            \* history: number of runs started
    preStore,        \* history: store when the current run started
    failure,         \* history: exception that ended the current run, or "none"
    lastSubmit,      \* history: effect of the last start_loading
    idsSeen,         \* history: ids of all batches committed
    lastDelivered,   \* history: list of the last update_data emitted in this process
    consumed,        \* history: signals of the current run the slots have consumed, in order
    request,         \* the GET of the current run: "none", "sent", "received", "failed"
    status           \* response.status of the response received, 0 when there is none

uiVars == <<button_enabled, progress_bar, status_bar, table>>
dbVars == <<conn, txn, store, tableExists>>
histVars == <<runs, preStore, failure, lastSubmit, idsSeen, lastDelivered>>
vars == <<appAlive, button_enabled, progress_bar, status_bar, table, wpc, i, data, k,
          conn, txn, store, tableExists, queue, emitted, runs, preStore, failure,
          lastSubmit, idsSeen, lastDelivered, consumed, request, status>>
netVars == <<request, status>>

\* ---- helpers
Progress(v) == [kind |-> "progress", val |-> v]
Status(s) == [kind |-> "status", text |-> s]
Data(d) == [kind |-> "data", list |-> d]

Digits == <<"0", "1", "2", "3", "4", "5", "6", "7", "8", "9">>

\* str(post["id"]) for the ids of the model
Str(n) == Digits[n + 1]

\* post["id"], post["title"], post["body"] all exist
WellFormed(post) == {"id", "title", "body"} \subseteq DOMAIN post

RowIds(rows) == { r.id : r \in rows }

\* table posts without PRIMARY KEY: every INSERT adds a row
InsertOrReplace_noKey(rows, post) == rows \cup {post}

\* the branches of the upsert swapped: an existing row is deleted, only a new id is inserted
InsertOrReplace_deleteExisting(rows, post) ==
    IF post.id \in RowIds(rows) THEN { r \in rows : r.id # post.id } ELSE rows \cup {post}

\* INSERT OR IGNORE instead of INSERT OR REPLACE: an existing row keeps its title and body
InsertOrReplace_ignore(rows, post) ==
    IF post.id \in RowIds(rows) THEN rows ELSE rows \cup {post}

\* DELETE FROM posts before each INSERT: only the post inserted last remains
InsertOrReplace_truncate(rows, post) == {post}

\* INSERT OR REPLACE with id as PRIMARY KEY: the row of that id is deleted, the post inserted
InsertOrReplace(rows, post) == { r \in rows : r.id # post.id } \cup {post}

\* logging.Formatter('%(asctime)s - %(message)s') then status_bar.showMessage
LoggerEmit(msg, thread) == [text |-> msg, stamped |-> TRUE, by |-> thread]

\* status_bar.showMessage(message, 3000) in the slot update_status_bar
ShowMessage(msg) == [text |-> msg, stamped |-> FALSE, by |-> "ui"]

\* display_data fills one table row per element of the list
Rows(d) == [j \in DOMAIN d |-> <<Str(d[j].id), d[j].title, d[j].body>>]

\* QThread.isRunning()
WorkerRunning == wpc \notin {"idle", "finished", "dead", "killed"}

\* deliveries handled newest first
Emit_lifo(n) ==
    /\ Len(queue) < MaxInFlight
    /\ queue' = <<n>> \o queue
    /\ emitted' = Append(emitted, n)

\* signal.emit(...) from the worker thread: a queued delivery to the UI thread
Emit(n) ==
    /\ Len(queue) < MaxInFlight
    /\ queue' = Append(queue, n)
    /\ emitted' = Append(emitted, n)

\* an exception leaves Worker.run: the thread ends and PyQt may abort the process;
\* a connection still open is left to the garbage collector or to process exit
Raise(kind) ==
    /\ failure' = kind
    /\ wpc' = "dead"
    /\ \E abort \in BOOLEAN, collected \in BOOLEAN :
          /\ appAlive' = ~abort
          /\ conn' = IF conn = "open" /\ (abort \/ collected) THEN "closed" ELSE conn
          /\ txn' = IF conn' = "open" THEN txn ELSE {}

Init ==
    /\ appAlive = TRUE
    /\ button_enabled = TRUE
    /\ progress_bar = ProgressUnset
    /\ status_bar = [text |-> "", stamped |-> FALSE, by |-> "ui"]
    /\ table = <<>>
    /\ wpc = "idle"
    /\ i = 0
    /\ data = <<>>
    /\ k = 1
    /\ conn = "none"
    /\ txn = {}
    /\ store = {}
    /\ tableExists = FALSE
    /\ queue = <<>>
    /\ emitted = <<>>
    /\ runs = 0
    /\ preStore = {}
    /\ failure = "none"
    /\ lastSubmit = "none"
    /\ idsSeen = {}
    /\ lastDelivered = <<>>
    /\ consumed = <<>>
    /\ request = "none"
    /\ status = 0

\* ---- the process
\* python Main.py again: a new window and worker over the same posts.db;
\* whatever was not committed is gone
Main ==
    /\ appAlive' = TRUE
    /\ button_enabled' = TRUE
    /\ progress_bar' = ProgressUnset
    /\ status_bar' = [text |-> "", stamped |-> FALSE, by |-> "ui"]
    /\ table' = <<>>
    /\ wpc' = "idle"
    /\ i' = 0
    /\ data' = <<>>
    /\ k' = 1
    /\ conn' = "none"
    /\ txn' = {}
    /\ queue' = <<>>
    /\ emitted' = <<>>
    /\ preStore' = store
    /\ failure' = "none"
    /\ lastSubmit' = "none"
    /\ lastDelivered' = <<>>
    /\ consumed' = <<>>
    /\ request' = "none"
    /\ status' = 0
    /\ UNCHANGED <<store, tableExists, runs, idsSeen>>

\* ---- MainWindow, on the UI thread
\* the button was clicked (a disabled button emits no clicked)
start_loading ==
    /\ appAlive
    /\ button_enabled
    /\ runs < MaxRuns
    /\ progress_bar' = 0
    /\ button_enabled' = FALSE
    /\ status_bar' = LoggerEmit(LogStartLoading, "ui")
    /\ IF WorkerRunning
       THEN \* QThread.start() does nothing when the thread is running
            /\ lastSubmit' = "dropped"
            /\ UNCHANGED <<wpc, i, data, k, conn, txn, emitted, runs, preStore, failure,
                           consumed, request, status>>
       ELSE /\ lastSubmit' = "started"
            /\ wpc' = "run_begin"
            /\ i' = 0
            /\ data' = <<>>
            /\ k' = 1
            /\ conn' = "none"
            /\ txn' = {}
            /\ emitted' = <<>>
            /\ runs' = runs + 1
            /\ preStore' = store
            /\ failure' = "none"
            /\ consumed' = <<>>
            /\ request' = "none"
            /\ status' = 0
    /\ UNCHANGED <<appAlive, table, store, tableExists, queue, idsSeen, lastDelivered>>

update_progress ==
    /\ appAlive
    /\ queue # <<>>
    /\ Head(queue).kind = "progress"
    /\ progress_bar' = Head(queue).val
    /\ queue' = Tail(queue)
    /\ consumed' = Append(consumed, Head(queue))
    /\ UNCHANGED <<appAlive, button_enabled, status_bar, table, wpc, i, data, k,
                   emitted>>
    /\ UNCHANGED dbVars
    /\ UNCHANGED histVars
    /\ UNCHANGED netVars

update_status_bar ==
    /\ appAlive
    /\ queue # <<>>
    /\ Head(queue).kind = "status"
    /\ status_bar' = ShowMessage(Head(queue).text)
    /\ queue' = Tail(queue)
    /\ consumed' = Append(consumed, Head(queue))
    /\ UNCHANGED <<appAlive, button_enabled, progress_bar, table, wpc, i, data, k,
                   emitted>>
    /\ UNCHANGED dbVars
    /\ UNCHANGED histVars
    /\ UNCHANGED netVars

display_data ==
    /\ appAlive
    /\ queue # <<>>
    /\ Head(queue).kind = "data"
    /\ table' = Rows(Head(queue).list)
    /\ button_enabled' = TRUE
    /\ status_bar' = LoggerEmit(LogLoaded, "ui")
    /\ queue' = Tail(queue)
    /\ consumed' = Append(consumed, Head(queue))
    /\ UNCHANGED <<appAlive, progress_bar, wpc, i, data, k, emitted>>
    /\ UNCHANGED dbVars
    /\ UNCHANGED histVars
    /\ UNCHANGED netVars

\* ---- Worker, on the worker thread
\* a step that emits one signal and moves on
EmitStep(from, n, to) ==
    /\ appAlive
    /\ wpc = from
    /\ Emit(n)
    /\ wpc' = to
    /\ UNCHANGED <<appAlive, data, k>>
    /\ UNCHANGED uiVars
    /\ UNCHANGED dbVars
    /\ UNCHANGED histVars
    /\ UNCHANGED <<consumed, request, status>>

\* self.update_progress.emit(0)
RunBegin == EmitStep("run_begin", Progress(0), "fetch_status") /\ UNCHANGED i

\* the GET is started as a task before the ramp, the ticks run while it is in flight
FetchStatus_requestFirst ==
    /\ appAlive
    /\ wpc = "fetch_status"
    /\ Emit(Status(MsgFetching))
    /\ wpc' = "fetch_log"
    /\ UNCHANGED <<appAlive, data, k>>
    /\ UNCHANGED uiVars
    /\ UNCHANGED dbVars
    /\ UNCHANGED histVars
    /\ i' = 0
    /\ request' = "sent"
    /\ UNCHANGED <<consumed, status>>

FetchStatus == EmitStep("fetch_status", Status(MsgFetching), "fetch_log") /\ i' = 0

\* the logging.info calls of the worker: <<position, message, next position>>
LogSteps ==
    { <<"fetch_log", LogFetchStart, "fetch_loop">>,
      <<"fetch_done_log", MsgFetchDone, "fetch_done_status">>,
      <<"save_log", LogSaveStart, "save_loop">>,
      <<"saved_log", LogSaved, "saved_status">> }

\* logging.info in the worker thread: StatusBarLogger.emit calls the widget from there
WorkerLog ==
    /\ appAlive
    /\ \E s \in LogSteps :
          /\ wpc = s[1]
          /\ \/ /\ status_bar' = LoggerEmit(s[2], "worker")
                /\ wpc' = s[3]
                /\ UNCHANGED appAlive
             \/ /\ appAlive' = FALSE
                /\ wpc' = "killed"
                /\ UNCHANGED status_bar
    /\ UNCHANGED <<button_enabled, progress_bar, table, i, data, k, queue, emitted>>
    /\ UNCHANGED dbVars
    /\ UNCHANGED histVars
    /\ UNCHANGED <<consumed, request, status>>

\* range(100, -1, -10): the ramp runs downwards
Tick_countdown(loop, after) ==
    /\ appAlive
    /\ wpc = loop
    /\ i < ProgressStop
    /\ Emit(Progress(ProgressDone - i))
    /\ i' = i + ProgressStep
    /\ wpc' = IF i + ProgressStep < ProgressStop THEN loop ELSE after
    /\ UNCHANGED <<appAlive, data, k>>
    /\ UNCHANGED uiVars
    /\ UNCHANGED dbVars
    /\ UNCHANGED histVars
    /\ UNCHANGED <<consumed, request, status>>

\* one round of a progress loop: emit(i), sleep, next i
Tick(loop, after) ==
    /\ appAlive
    /\ wpc = loop
    /\ i < ProgressStop
    /\ Emit(Progress(i))
    /\ i' = i + ProgressStep
    /\ wpc' = IF i + ProgressStep < ProgressStop THEN loop ELSE after
    /\ UNCHANGED <<appAlive, data, k>>
    /\ UNCHANGED uiVars
    /\ UNCHANGED dbVars
    /\ UNCHANGED histVars
    /\ UNCHANGED <<consumed, request, status>>

FetchTick == Tick("fetch_loop", "fetch_get")

\* session.get(url): the request is issued
FetchGet ==
    /\ appAlive
    /\ wpc = "fetch_get"
    /\ wpc' = "fetch_wait"
    /\ UNCHANGED <<appAlive, i, data, k, queue, emitted>>
    /\ UNCHANGED uiVars
    /\ UNCHANGED dbVars
    /\ UNCHANGED histVars
    /\ request' = "sent"
    /\ UNCHANGED <<consumed, status>>

\* async with session.get(url) as response: data = await response.json();
\* response.status is never read
FetchResponse ==
    /\ appAlive
    /\ wpc = "fetch_wait"
    /\ \E r \in HttpResponses :
          /\ data' = r.body
          /\ status' = r.status
    /\ request' = "received"
    /\ wpc' = "fetch_done_log"
    /\ UNCHANGED <<appAlive, i, k, queue, emitted>>
    /\ UNCHANGED uiVars
    /\ UNCHANGED dbVars
    /\ UNCHANGED histVars
    /\ UNCHANGED consumed

\* fetch_data swallows the exception and returns a list: run() goes on to save it
FetchFail_continues ==
    /\ appAlive
    /\ wpc = "fetch_wait"
    /\ \E kind \in {"network", "decode"} : failure' = kind
    /\ \E d \in Responses : data' = d
    /\ wpc' = "save_status"
    /\ UNCHANGED <<appAlive, i, k, queue, emitted>>
    /\ UNCHANGED uiVars
    /\ UNCHANGED dbVars
    /\ UNCHANGED <<runs, preStore, lastSubmit, idsSeen, lastDelivered>>
    /\ request' = "failed"
    /\ UNCHANGED <<consumed, status>>

\* the request or the decoding raises (timeout, connection error, body not JSON)
FetchFail ==
    /\ appAlive
    /\ wpc = "fetch_wait"
    /\ \E kind \in {"network", "decode"} : Raise(kind)
    /\ UNCHANGED <<i, data, k, queue, emitted, store, tableExists>>
    /\ UNCHANGED uiVars
    /\ UNCHANGED <<runs, preStore, lastSubmit, idsSeen, lastDelivered>>
    /\ request' = "failed"
    /\ UNCHANGED <<consumed, status>>

FetchDoneStatus ==
    EmitStep("fetch_done_status", Status(MsgFetchDone), "save_status") /\ UNCHANGED i

SaveStatus == EmitStep("save_status", Status(MsgSaving), "save_log") /\ i' = 0

SaveTick == Tick("save_loop", "connect")

\* conn = sqlite3.connect("posts.db"); cursor = conn.cursor()
Connect ==
    /\ appAlive
    /\ wpc = "connect"
    /\ conn' = "open"
    /\ txn' = store
    /\ wpc' = "create"
    /\ UNCHANGED <<appAlive, i, data, k, queue, emitted, store, tableExists>>
    /\ UNCHANGED uiVars
    /\ UNCHANGED histVars
    /\ UNCHANGED <<consumed, request, status>>

\* CREATE TABLE IF NOT EXISTS posts: DDL, not part of the batch's transaction
CreateTable ==
    /\ appAlive
    /\ wpc = "create"
    /\ tableExists' = TRUE
    /\ wpc' = "execute"
    /\ UNCHANGED <<appAlive, i, data, k, queue, emitted, conn, txn, store>>
    /\ UNCHANGED uiVars
    /\ UNCHANGED histVars
    /\ UNCHANGED <<consumed, request, status>>

\* isolation_level=None (autocommit): each INSERT is visible at once
Execute_autocommit ==
    /\ appAlive
    /\ wpc = "execute"
    /\ k <= Len(data)
    /\ WellFormed(data[k])
    /\ txn' = InsertOrReplace(txn, data[k])
    /\ store' = InsertOrReplace(store, data[k])
    /\ k' = k + 1
    /\ UNCHANGED <<appAlive, wpc, i, data, queue, emitted, conn, tableExists>>
    /\ UNCHANGED uiVars
    /\ UNCHANGED histVars
    /\ UNCHANGED <<consumed, request, status>>

\* one round of `for post in data`: the INSERT goes to the open transaction
Execute ==
    /\ appAlive
    /\ wpc = "execute"
    /\ k <= Len(data)
    /\ WellFormed(data[k])
    /\ txn' = InsertOrReplace(txn, data[k])
    /\ k' = k + 1
    /\ UNCHANGED <<appAlive, wpc, i, data, queue, emitted, conn, store, tableExists>>
    /\ UNCHANGED uiVars
    /\ UNCHANGED histVars
    /\ UNCHANGED <<consumed, request, status>>

\* run() emits update_data in a finally block: the list goes out after the exception too
ExecuteFail_emitsData ==
    /\ appAlive
    /\ wpc = "execute"
    /\ k <= Len(data)
    /\ ~WellFormed(data[k])
    /\ Raise("persist")
    /\ Emit(Data(SubSeq(data, 1, k - 1)))
    /\ UNCHANGED <<i, data, k, store, tableExists>>
    /\ UNCHANGED uiVars
    /\ UNCHANGED <<runs, preStore, lastSubmit, idsSeen, lastDelivered>>
    /\ UNCHANGED <<consumed, request, status>>

\* the round raises (KeyError of post[...], or an sqlite3 error of execute)
ExecuteFail ==
    /\ appAlive
    /\ wpc = "execute"
    /\ k <= Len(data)
    /\ ~WellFormed(data[k])
    /\ Raise("persist")
    /\ UNCHANGED <<i, data, k, queue, emitted, store, tableExists>>
    /\ UNCHANGED uiVars
    /\ UNCHANGED <<runs, preStore, lastSubmit, idsSeen, lastDelivered>>
    /\ UNCHANGED <<consumed, request, status>>

\* conn.commit() left out: close() drops the transaction
Commit_skipped ==
    /\ appAlive
    /\ wpc = "execute"
    /\ k > Len(data)
    /\ store' = store
    /\ idsSeen' = idsSeen \cup RowIds({ data[j] : j \in DOMAIN data })
    /\ wpc' = "close"
    /\ UNCHANGED <<appAlive, i, data, k, queue, emitted, conn, txn, tableExists>>
    /\ UNCHANGED uiVars
    /\ UNCHANGED <<runs, preStore, failure, lastSubmit, lastDelivered>>
    /\ UNCHANGED <<consumed, request, status>>

\* conn.commit(): the transaction's rows become the rows of posts.db
Commit ==
    /\ appAlive
    /\ wpc = "execute"
    /\ k > Len(data)
    /\ store' = txn
    /\ idsSeen' = idsSeen \cup RowIds({ data[j] : j \in DOMAIN data })
    /\ wpc' = "close"
    /\ UNCHANGED <<appAlive, i, data, k, queue, emitted, conn, txn, tableExists>>
    /\ UNCHANGED uiVars
    /\ UNCHANGED <<runs, preStore, failure, lastSubmit, lastDelivered>>
    /\ UNCHANGED <<consumed, request, status>>

\* conn.close()
Close ==
    /\ appAlive
    /\ wpc = "close"
    /\ conn' = "closed"
    /\ txn' = {}
    /\ wpc' = "saved_log"
    /\ UNCHANGED <<appAlive, i, data, k, queue, emitted, store, tableExists>>
    /\ UNCHANGED uiVars
    /\ UNCHANGED histVars
    /\ UNCHANGED <<consumed, request, status>>

SavedStatus == EmitStep("saved_status", Status(MsgSaved), "emit_100") /\ UNCHANGED i

\* self.update_progress.emit(100)
EmitDone == EmitStep("emit_100", Progress(ProgressDone), "emit_data") /\ UNCHANGED i

RECURSIVE Dedup(_)
\* the posts of d that are the last of their id, in order
Dedup(d) ==
    IF d = <<>> THEN <<>>
    ELSE IF \E m \in 2..Len(d) : d[m].id = d[1].id
         THEN Dedup(Tail(d))
         ELSE <<d[1]>> \o Dedup(Tail(d))

\* the list emitted is read back from posts.db: one element per row
EmitData_rereadsStore ==
    /\ appAlive
    /\ wpc = "emit_data"
    /\ Emit(Data(Dedup(data)))
    /\ lastDelivered' = data
    /\ wpc' = "run_return"
    /\ UNCHANGED <<appAlive, i, data, k>>
    /\ UNCHANGED uiVars
    /\ UNCHANGED dbVars
    /\ UNCHANGED <<runs, preStore, failure, lastSubmit, idsSeen>>
    /\ UNCHANGED <<consumed, request, status>>

\* self.update_data.emit(data)
EmitData ==
    /\ appAlive
    /\ wpc = "emit_data"
    /\ Emit(Data(data))
    /\ lastDelivered' = data
    /\ wpc' = "run_return"
    /\ UNCHANGED <<appAlive, i, data, k>>
    /\ UNCHANGED uiVars
    /\ UNCHANGED dbVars
    /\ UNCHANGED <<runs, preStore, failure, lastSubmit, idsSeen>>
    /\ UNCHANGED <<consumed, request, status>>

\* run() returns, the thread finishes
RunReturn ==
    /\ appAlive
    /\ wpc = "run_return"
    /\ wpc' = "finished"
    /\ UNCHANGED <<appAlive, i, data, k, queue, emitted>>
    /\ UNCHANGED uiVars
    /\ UNCHANGED dbVars
    /\ UNCHANGED histVars
    /\ UNCHANGED <<consumed, request, status>>

Next ==
    \/ Main
    \/ start_loading
    \/ update_progress
    \/ update_status_bar
    \/ display_data
    \/ RunBegin
    \/ FetchStatus
    \/ WorkerLog
    \/ FetchTick
    \/ FetchGet
    \/ FetchResponse
    \/ FetchFail
    \/ FetchDoneStatus
    \/ SaveStatus
    \/ SaveTick
    \/ Connect
    \/ CreateTable
    \/ Execute
    \/ ExecuteFail
    \/ Commit
    \/ Close
    \/ SavedStatus
    \/ EmitDone
    \/ EmitData
    \/ RunReturn

Spec == Init /\ [][Next]_vars

\* ---- the claims
\* the current run ended by an exception
RunFailed == failure # "none"

\* the current run emitted update_data, its last statement
RunSucceeded == wpc \in {"run_return", "finished"}

Range(d) == { d[j] : j \in DOMAIN d }

\* data[j] is the last post of the response with its id
LastOfId(d, j) == \A m \in DOMAIN d : m > j => d[m].id # d[j].id

DistinctIds(d) == \A m, n \in DOMAIN d : m # n => d[m].id # d[n].id

\* C1: when the batch fails at a record, the committed rows of posts.db are the rows
\* from before the run: none of the records executed before the failing one is visible.
C1_BatchAtomic == failure = "persist" => store = preStore

\* C1 witness: the batch failed at record 2 after record 1, a row posts.db did not have,
\* was executed.
C1_Witness == failure = "persist" /\ k = 2 /\ data[1] \notin preStore

\* C2: after any terminal state of a run, success or failure, with all its
\* notifications consumed, start_loading can be triggered again (the process lives
\* and the button is enabled).
C2_NewRunAfterTerminal ==
    ((RunFailed \/ wpc = "finished") /\ queue = <<>>) => (appAlive /\ button_enabled)

\* C3: a submission made while the worker runs is rejected with a busy outcome: the UI
\* does not announce it as a started run and stays able to submit later.
C3_SecondSubmitBusy ==
    lastSubmit = "dropped" => (status_bar.text # LogStartLoading /\ button_enabled)

\* C4: the widgets are changed on the UI thread only; the worker thread never sets the
\* status bar itself.
C4_WidgetsOnUiThread == status_bar.by = "ui"

\* C5: a run that ended in failure has emitted no update_progress(100).
C5_NoHundredOnFailure ==
    RunFailed =>
        \A j \in DOMAIN emitted :
            ~(emitted[j].kind = "progress" /\ emitted[j].val = ProgressDone)

\* C6: a run that ended in failure has emitted a status naming the failure: its last
\* update_status is none of the messages of the loading and saving stages.
C6_FailureNotified ==
    RunFailed =>
        \E j \in DOMAIN emitted :
            /\ emitted[j].kind = "status"
            /\ emitted[j].text \notin {MsgFetching, MsgFetchDone, MsgSaving, MsgSaved}
            /\ \A m \in DOMAIN emitted : m > j => emitted[m].kind # "status"

\* C7: a run whose fetch failed never reaches save_to_database: no connection is
\* opened, no post is executed, the saving status is not emitted and the rows of
\* posts.db are those from before the run.
C7_FetchFailureSkipsPersist ==
    failure \in {"network", "decode"} =>
        /\ conn = "none"
        /\ txn = {}
        /\ k = 1
        /\ store = preStore
        /\ \A j \in DOMAIN emitted :
              ~(emitted[j].kind = "status" /\ emitted[j].text = MsgSaving)

\* C7 witness: a fetch failed in a run started over a non-empty posts.db.
C7_Witness == failure \in {"network", "decode"} /\ preStore # {}

\* C8: a failed run emits no update_data, and the table keeps the rows of the list
\* delivered last.
C8_FailureKeepsTable ==
    RunFailed =>
        /\ \A j \in DOMAIN emitted : emitted[j].kind # "data"
        /\ table = Rows(lastDelivered)

\* C8 witness: a run failed while the table shows the rows of an earlier run.
C8_Witness == RunFailed /\ table # <<>> /\ appAlive

\* C9 as stated: after a successful run over well-formed records the rows of posts.db
\* are exactly the records of the response, and the delivered set is that set.
C9_StoreIsExactlyResponse ==
    RunSucceeded => (store = Range(data) /\ Range(lastDelivered) = store)

\* C9 amended: after a successful run posts.db holds, for each id of the response, the
\* last record of the response with that id, next to the unchanged rows of other ids;
\* update_data delivers the response itself, so with pairwise distinct ids the
\* delivered set is the set of rows written by the run.
C9_StoreHoldsResponse ==
    RunSucceeded =>
        /\ \A j \in DOMAIN data : LastOfId(data, j) => data[j] \in store
        /\ \A r \in store : r.id \in RowIds(Range(data)) => r \in Range(data)
        /\ { r \in store : r.id \notin RowIds(Range(data)) }
              = { r \in preStore : r.id \notin RowIds(Range(data)) }
        /\ emitted[Len(emitted)].kind = "data"
        /\ emitted[Len(emitted)].list = data
        /\ DistinctIds(data) =>
              Range(emitted[Len(emitted)].list)
                  = { r \in store : r.id \in RowIds(Range(data)) }

\* C9 witness: a successful run of two records with distinct ids, one overwriting a
\* row of an earlier run.
C9_Witness ==
    /\ RunSucceeded
    /\ Len(data) = 2
    /\ DistinctIds(data)
    /\ \E r \in preStore : r \notin store

Committed == wpc \in {"close", "saved_log", "saved_status", "emit_100", "emit_data"}

IsProgress(n) == n.kind = "progress"
IsStatus(n) == n.kind = "status"
NotProgress(n) == n.kind # "progress"

\* the update_status texts of a successful run, in the order of the code
StageOrder == <<MsgFetching, MsgFetchDone, MsgSaving, MsgSaved>>

\* the values of range(0, 101, 10)
TickValues == { v \in 0..(ProgressStop - 1) : v % ProgressStep = 0 }

\* the rows of posts.db under the ids of the response of the current run
RowsWritten == { r \in store : r.id \in RowIds(Range(data)) }

\* C11: posts.db never holds two rows with the same id, neither committed nor inside
\* the open transaction, whatever the responses (repeated ids included).
C11_UniqueIds ==
    /\ \A r1, r2 \in store : r1.id = r2.id => r1 = r2
    /\ \A r1, r2 \in txn : r1.id = r2.id => r1 = r2

\* C11 witness: a batch in which an id occurs twice was committed.
C11_Witness == RunSucceeded /\ Len(data) = 2 /\ ~DistinctIds(data) /\ store # {}

\* C12: when a run has committed a response identical to the one the previous run
\* delivered, the rows of posts.db are the rows from before this run.
C12_Idempotent == (Committed /\ lastDelivered = data) => store = preStore

\* C12 witness: the second run committed the same two posts the first run delivered.
C12_Witness ==
    /\ wpc = "emit_data"
    /\ runs = 2
    /\ Len(data) = 2
    /\ lastDelivered = data

C14_InOrderDelivery == consumed \o queue = emitted

\* C14 witness: a status and a progress signal are in flight together after others
\* have been consumed.
C14_Witness ==
    /\ Len(queue) = 2
    /\ queue[1].kind # queue[2].kind
    /\ Len(consumed) >= 2

\* C15: every progress value emitted is in 0..100, the first signal of a run is
\* progress 0, and progress values that follow one another within a stage (with at
\* most a status between them that opens no stage) do not decrease.
C15_ProgressRange ==
    LET n == Len(emitted)
    IN  /\ n > 0 => (emitted[1].kind = "progress" /\ emitted[1].val = 0)
        /\ \A j \in 1..n :
              emitted[j].kind = "progress" =>
                  /\ emitted[j].val \in 0..ProgressDone
                  /\ j < n =>
                        IF emitted[j + 1].kind = "progress"
                        THEN emitted[j].val <= emitted[j + 1].val
                        ELSE (/\ emitted[j + 1].kind = "status"
                              /\ emitted[j + 1].text \notin {MsgFetching, MsgSaving}
                              /\ j + 1 < n
                              /\ emitted[j + 2].kind = "progress")
                                 => emitted[j].val <= emitted[j + 2].val

\* C15 witness: the run went through both ramps; the persist stage started again at 0
\* after the fetch stage had reached 100.
C15_Witness ==
    /\ wpc = "emit_data"
    /\ \E j, m \in DOMAIN emitted :
          /\ j < m
          /\ IsProgress(emitted[j]) /\ emitted[j].val = ProgressDone
          /\ IsProgress(emitted[m]) /\ emitted[m].val = 0

\* C16: the signals of a run other than progress are the statuses fetching, fetch
\* complete, saving, saved, in that order, then at most one update_data; saving comes
\* only after the response was received; once 'saved' is emitted the batch is
\* committed and the connection closed; update_data is the last signal of the run,
\* right after progress 100, which is right after 'saved'.
C16_SuccessOrder ==
    LET n == Len(emitted)
        ns == SelectSeq(emitted, NotProgress)
        st == IF ns # <<>> /\ ns[Len(ns)].kind = "data" THEN SubSeq(ns, 1, Len(ns) - 1) ELSE ns
    IN  /\ Len(st) <= Len(StageOrder)
        /\ \A j \in DOMAIN st : st[j].kind = "status" /\ st[j].text = StageOrder[j]
        /\ Len(st) >= 3 => request = "received"
        /\ Len(st) = 4 =>
              /\ conn = "closed"
              /\ \A j \in DOMAIN data : LastOfId(data, j) => data[j] \in store
        /\ Len(ns) > Len(st) =>
              /\ emitted[n].kind = "data"
              /\ n >= 3
              /\ emitted[n - 1].kind = "progress" /\ emitted[n - 1].val = ProgressDone
              /\ emitted[n - 2].kind = "status" /\ emitted[n - 2].text = MsgSaved
        /\ RunSucceeded => emitted[n].kind = "data"

\* C16 witness: a successful run that changed posts.db with two posts.
C16_Witness == RunSucceeded /\ Len(data) = 2 /\ store # preStore

\* C17 as stated: a progress tick of the fetch stage (a progress signal after the
\* status 'fetching') is emitted only once the request has been issued.
C17_TicksDuringFetchWait ==
    (\E j \in DOMAIN emitted : j > 2 /\ IsProgress(emitted[j])) => request # "none"

\* C17 amended: the ticks of the fetch stage are all emitted before the request is
\* issued: no request exists while the ramp runs, and while the request is in
\* flight every value of the ramp has been emitted, 100 being the last signal.
C17_TicksBeforeRequest ==
    /\ wpc = "fetch_loop" => request = "none"
    /\ request = "sent" =>
          /\ \A v \in TickValues :
                \E j \in DOMAIN emitted : j > 2 /\ IsProgress(emitted[j]) /\ emitted[j].val = v
          /\ IsProgress(emitted[Len(emitted)])
          /\ emitted[Len(emitted)].val = ProgressDone

\* C17 witness: the request is in flight.
C17_Witness == request = "sent" /\ wpc = "fetch_wait" /\ appAlive

\* C18: when a run has ended, by success or by failure, its connection is not open.
C18_ConnectionClosedAtExit == (RunFailed \/ RunSucceeded) => conn # "open"

\* C19: the update_data of a successful run carries the fetched list itself; once display_data has shown it,
\* the table has one row per element of the response, in order, and that is the
\* number of rows the run wrote to posts.db exactly when the ids of the response are
\* pairwise distinct.
C19_TableShowsResponse ==
    /\ RunSucceeded =>
          \A j \in DOMAIN emitted : emitted[j].kind = "data" => emitted[j].list = data
    /\ (RunSucceeded /\ queue = <<>>) =>
          /\ table = Rows(data)
          /\ Len(table) = Len(data)
          /\ (Len(table) = Cardinality(RowsWritten)) <=> DistinctIds(data)

\* C19 witness: a response repeating an id was shown: two table rows, one row written.
C19_Witness ==
    /\ RunSucceeded
    /\ queue = <<>>
    /\ ~DistinctIds(data)
    /\ Len(table) = 2
    /\ Cardinality(RowsWritten) = 1

TypeOK ==
    /\ appAlive \in BOOLEAN
    /\ button_enabled \in BOOLEAN
    /\ progress_bar \in ProgressUnset..ProgressDone
    /\ Len(queue) <= MaxInFlight
    /\ runs \in 0..MaxRuns
    /\ store \subseteq OkPosts
    /\ conn \in {"none", "open", "closed"}
====
